---- MODULE Spec2Model ----
(***************************************************************************)
(* A model of covasim/framework/model.py: the parameter container ParsObj, *)
(* the Result time series, the Sim engine and the ensemble functions       *)
(* single_run and multi_run.                                               *)
(*                                                                         *)
(* Python values: an optional value is a sequence, <<>> for None and <<v>> *)
(* for v.  A dict is a function whose DOMAIN is its key set.  Objects live *)
(* in a heap (address -> object) so that a copy and an alias differ.       *)
(* An exception is the name of its Python class.                           *)
(***************************************************************************)
EXTENDS Integers, Sequences, FiniteSets, TLC

VARIABLES
    heap,      \* address -> Sim object (cls, haspars, pars, people, results)
    stream,    \* process id -> state of that process's global random stream
    last,      \* the last completed call on the engine at address Tpl
    run,       \* the activation of single_run called directly
    tasks,     \* multi_run: index -> activation of single_run in the pool
    mr         \* the activation of multi_run

vars == <<heap, stream, last, run, tasks, mr>>

(***************************************************************************)
(* Bounds of the model.                                                    *)
(***************************************************************************)
MaxVal == 1        \* parameter values and seeds are drawn from 0..MaxVal
PopSize == 2       \* the template's population size, pars['n']
NDays == 1         \* the template's pars['n_days']
MaxInd == 1        \* single_run called directly: ind in 0..MaxInd
MaxRate == 1       \* a run's daily count grows by 0..MaxRate per day
MaxN == 2          \* multi_run: n and the iterpars sequences' lengths

(***************************************************************************)
(* Python values.                                                          *)
(***************************************************************************)
NoneVal == <<>>
Some(v) == <<v>>
Opt(S) == {NoneVal} \cup {Some(v) : v \in S}

Ok == "ok"
KeyError == "KeyError"
ValueError == "ValueError"
TypeError == "TypeError"
IndexError == "IndexError"
NotImplementedError == "NotImplementedError"

EmptyDict == <<>>
Vals == 0..MaxVal

\* dict.update(b) on dict a: the keys of b are added or overwritten.
DictUpdate(a, b) ==
    [k \in (DOMAIN a) \cup (DOMAIN b) |-> IF k \in DOMAIN b THEN b[k] ELSE a[k]]

\* All dicts with keys among K and values in V.
Dicts(K, V) == UNION {[S -> V] : S \in SUBSET K}

(***************************************************************************)
(* ParsObj                                                                 *)
(***************************************************************************)
\* ParsObj.__init__: update_pars(pars, create=True) on an object that has no
\* attribute pars yet, so self.pars = pars.
ParsObj_init(pars) == pars

\* ParsObj.__getitem__: self.pars[key]; a dict raises KeyError on a missing key.
ParsObj_getitem(pars, key) ==
    IF key \in DOMAIN pars
    THEN [err |-> Ok, ret |-> Some(pars[key])]
    ELSE [err |-> KeyError, ret |-> NoneVal]

\* ParsObj.__setitem__: assign if the key exists, else raise KeyError.
ParsObj_setitem(pars, key, value) ==
    IF key \in DOMAIN pars
    THEN [err |-> Ok, pars |-> [pars EXCEPT ![key] = value]]
    ELSE [err |-> KeyError, pars |-> pars]

\* A faulty update_pars: validates after updating the known keys.
update_pars_partial(pars, new, isdict, create) ==
    IF ~isdict THEN [err |-> TypeError, pars |-> pars]
    ELSE IF ~create /\ (DOMAIN new) \ (DOMAIN pars) # {}
         THEN [err |-> KeyError,
               pars |-> [k \in DOMAIN pars |->
                            IF k \in DOMAIN new THEN new[k] ELSE pars[k]]]
         ELSE [err |-> Ok, pars |-> DictUpdate(pars, new)]

\* ParsObj.update_pars on a constructed object (self.pars exists): a non-dict
\* raises TypeError; with create=False any key not in self.pars raises KeyError
\* before the update; otherwise self.pars.update(pars).
update_pars(pars, new, isdict, create) ==
    IF ~isdict THEN [err |-> TypeError, pars |-> pars]
    ELSE LET mismatches == {k \in DOMAIN new : k \notin DOMAIN pars}
         IN  IF ~create /\ mismatches # {}
             THEN [err |-> KeyError, pars |-> pars]
             ELSE [err |-> Ok, pars |-> DictUpdate(pars, new)]

(***************************************************************************)
(* The random stream (covasim.utils.set_seed and numpy.random).            *)
(***************************************************************************)
\* pos counts the numbers drawn since the stream was last reset.
Unseeded == [kind |-> "unseeded", seed |-> 0, pos |-> 0]
Randomized == [kind |-> "random", seed |-> 0, pos |-> 0]
Seeded(s) == [kind |-> "seeded", seed |-> s, pos |-> 0]

\* np.random.normal(): one number is drawn and the stream moves on.
Advance(strm) == [strm EXCEPT !.pos = @ + 1]

\* cov_ut.set_seed(seed): reset the global stream from seed; None randomizes.
utils_set_seed(seed) == IF seed = NoneVal THEN Randomized ELSE Seeded(seed[1])

(***************************************************************************)
(* Sim.set_seed                                                            *)
(***************************************************************************)
\* A faulty set_seed: a supplied seed wins over randomize instead of raising.
set_seed_noraise(pars, strm, seed, randomize) ==
    IF randomize /\ seed = NoneVal
    THEN [err |-> Ok, pars |-> pars, stream |-> utils_set_seed(NoneVal)]
    ELSE IF seed = NoneVal
         THEN LET g == ParsObj_getitem(pars, "seed")
              IN  IF g.err # Ok THEN [err |-> g.err, pars |-> pars, stream |-> strm]
                  ELSE [err |-> Ok, pars |-> pars, stream |-> utils_set_seed(g.ret)]
         ELSE LET s == ParsObj_setitem(pars, "seed", seed[1])
              IN  IF s.err # Ok THEN [err |-> s.err, pars |-> pars, stream |-> strm]
                  ELSE [err |-> Ok, pars |-> s.pars, stream |-> utils_set_seed(seed)]

\* Sim.set_seed(seed, randomize) on an engine with parameters pars, in a process
\* whose stream is strm.
set_seed(pars, strm, seed, randomize) ==
    IF randomize
    THEN IF seed = NoneVal
         THEN [err |-> Ok, pars |-> pars, stream |-> utils_set_seed(NoneVal)]
         ELSE [err |-> ValueError, pars |-> pars, stream |-> strm]
    ELSE IF seed = NoneVal
         THEN LET g == ParsObj_getitem(pars, "seed")   \* seed = self['seed']
              IN  IF g.err # Ok THEN [err |-> g.err, pars |-> pars, stream |-> strm]
                  ELSE [err |-> Ok, pars |-> pars, stream |-> utils_set_seed(g.ret)]
         ELSE LET s == ParsObj_setitem(pars, "seed", seed[1])  \* self['seed'] = seed
              IN  IF s.err # Ok THEN [err |-> s.err, pars |-> pars, stream |-> strm]
                  ELSE [err |-> Ok, pars |-> s.pars, stream |-> utils_set_seed(seed)]

(***************************************************************************)
(* Result                                                                  *)
(***************************************************************************)
Zeros(npts) == [d \in 1..npts |-> 0]

\* Result.__init__(name, values=None, npts): zeros when only npts is given.
Result_init(name, values, npts) ==
    [kind |-> "Result", name |-> name,
     values |-> IF values = NoneVal
                THEN (IF npts = NoneVal THEN <<>> ELSE Zeros(npts[1]))
                ELSE values[1]]

\* Result.npts
Result_npts(res) == Len(res.values)

\* An entry of sim.results is a Result or (as _make_resdict allows) a bare array.
NdArray(values) == [kind |-> "ndarray", name |-> "", values |-> values]

\* Result.__getitem__(i): self.values[i]; an index below 0 counts from the
\* end, one outside -npts..npts-1 raises IndexError.
Result_getitem(res, i) ==
    LET npts == Len(res.values)
    IN  IF i \in 0..(npts - 1) THEN [err |-> Ok, ret |-> Some(res.values[i + 1])]
        ELSE IF i \in (-npts)..(-1)
             THEN [err |-> Ok, ret |-> Some(res.values[npts + i + 1])]
             ELSE [err |-> IndexError, ret |-> NoneVal]

\* Result.__setitem__(i, v): self.values[i] = v
Result_setitem(res, i, v) ==
    LET npts == Len(res.values)
    IN  IF i \in 0..(npts - 1)
        THEN [err |-> Ok, res |-> [res EXCEPT !.values[i + 1] = v]]
        ELSE IF i \in (-npts)..(-1)
             THEN [err |-> Ok, res |-> [res EXCEPT !.values[npts + i + 1] = v]]
             ELSE [err |-> IndexError, res |-> res]

\* numpy's in-place addition a += b of two one-dimensional arrays: b has a's
\* length, or length 1 and is broadcast; any other pair of lengths raises
\* ValueError.
IAdd_elementwise(a, b) ==
    IF Len(b.values) = Len(a.values)
    THEN [err |-> Ok,
          val |-> [a EXCEPT !.values = [d \in 1..Len(a.values) |->
                                            a.values[d] + b.values[d]]]]
    ELSE IF Len(b.values) = 1
         THEN [err |-> Ok,
               val |-> [a EXCEPT !.values = [d \in 1..Len(a.values) |->
                                                 a.values[d] + b.values[1]]]]
         ELSE [err |-> ValueError, val |-> a]

\* a += b on two entries of sim.results.  An ndarray adds element-wise, in
\* place (shapes must agree).  Result defines __getitem__, __setitem__ and npts
\* only: neither __iadd__ nor __add__, so Python raises TypeError.
IAdd(a, b) ==
    IF a.kind = "Result" \/ b.kind = "Result"
    THEN [err |-> TypeError, val |-> a]
    ELSE IAdd_elementwise(a, b)

(***************************************************************************)
(* Sim objects and the heap.                                               *)
(***************************************************************************)
Tpl == 0           \* address of the engine the caller holds
Main == 0          \* the calling process

\* The class of an engine: Sim itself, whose init_people, init_results and run
\* only raise NotImplementedError, or a subclass of a disease model that
\* overrides run, so that a run of it completes.
SimClass == "Sim"
ModelClass == "ModelSim"
Classes == {SimClass, ModelClass}

\* An engine before Sim.__init__ has run: it has no attribute pars yet.
Blank ==
    [cls |-> SimClass, haspars |-> FALSE, pars |-> EmptyDict, people |-> NoneVal,
     results |-> NoneVal]

\* Sim.__init__(pars), on an object of class cls: ParsObj.__init__, nothing
\* else.
NewSim(cls, pars) ==
    [Blank EXCEPT !.cls = cls, !.haspars = TRUE, !.pars = ParsObj_init(pars)]

\* Sim.init_results, Sim.init_people, Sim.run: raise NotImplementedError.
Sim_init_results(sim) == [err |-> NotImplementedError, sim |-> sim]
Sim_init_people(sim) == [err |-> NotImplementedError, sim |-> sim]
Sim_run(sim) == [err |-> NotImplementedError, sim |-> sim]

\* Sim.npts: int(self['n_days'] + 1)
Sim_npts(sim) == sim.pars["n_days"] + 1

\* Sim.n: len(self.people)
Sim_n(sim) == Cardinality(DOMAIN sim.people[1])

\* The names of an engine's series, in the order of sim.results_keys.
ResultKeys == <<"new_infections", "cum_infections">>
ResultNames == {ResultKeys[i] : i \in 1..Len(ResultKeys)}

\* A population of n agents with identifiers 0..n-1, none infected.
Population(n) == [u \in 0..(n - 1) |-> 0]

\* One zero-filled series of length npts per name.
ResultDict(kind, npts) ==
    [name \in ResultNames |->
        IF kind = "Result" \/ (kind = "mixed" /\ name # ResultKeys[1])
        THEN Result_init(name, NoneVal, Some(npts))
        ELSE NdArray(Zeros(npts))]

\* The daily counts of a run whose count grows by rate a day (day 0 is the
\* initial state).
Counts(rate, npts) == [d \in 1..npts |-> rate * (d - 1)]

RECURSIVE CumSum(_)
CumSum(s) ==
    IF s = <<>> THEN <<>>
    ELSE LET front == CumSum(SubSeq(s, 1, Len(s) - 1))
         IN  Append(front, (IF front = <<>> THEN 0 ELSE front[Len(front)]) + s[Len(s)])

\* run of a disease model, the stepping loop to its end: every series is filled
\* for days 0..n_days, the agents infected on the last day are marked.
run_end(sim, rate) ==
    LET npts == Sim_npts(sim)
        new == Counts(rate, npts)
        fill(name) == IF name = "new_infections" THEN new ELSE CumSum(new)
    IN  [sim EXCEPT
            !.results = Some([name \in DOMAIN sim.results[1] |->
                                [sim.results[1][name] EXCEPT !.values = fill(name)]]),
            !.people = Some([u \in DOMAIN sim.people[1] |->
                                IF u < new[npts] THEN 1 ELSE 0])]

\* sim.results_keys: the names of the engine's series, in order.
results_keys(sim) ==
    LET has(name) == name \in DOMAIN sim.results[1]
    IN  SelectSeq(ResultKeys, has)

\* A faulty copy: the same object under another name.
dcp_alias(h, src, fresh) == [ref |-> src, heap |-> h]

\* sc.dcp(obj): a deep copy, a new object at the unused address fresh.
dcp(h, src, fresh) == [ref |-> fresh, heap |-> (fresh :> h[src]) @@ h]

(***************************************************************************)
(* single_run, one operator per stage.  r is the activation (arguments and *)
(* locals), h the heap, strm the stream of the process that executes it.   *)
(***************************************************************************)
NoRef == -1
NoFactor == [num |-> 1, den |-> 1]

\* An activation of single_run(sim, ind, noise, noisepar, verbose, **kwargs);
\* kwargs is the sequence of its <<key, value>> pairs in the caller's order and
\* fresh the address its copy of sim will get.
Activation(sim, ind, noise, noisepar, verbose, kwargs, proc, fresh) ==
    [pc |-> "copy", sim |-> sim, ind |-> ind, noise |-> noise,
     noisepar |-> noisepar, verbose |-> verbose, kwargs |-> kwargs,
     proc |-> proc, fresh |-> fresh, new_sim |-> NoRef,
     noisefactor |-> NoFactor, drawn |-> NoneVal, err |-> Ok, at |-> "",
     args |-> [noisepar |-> noisepar, verbose |-> verbose]]

NoRun == [Activation(Tpl, 0, 0, NoneVal, NoneVal, <<>>, Main, Tpl + 1)
             EXCEPT !.pc = "idle"]

\* An exception leaves the function; at records the stage that raised it.
Raise(r, e) == [r EXCEPT !.pc = "raised", !.err = e, !.at = r.pc]

Guesses == <<"r_contact", "r0", "beta">>

\* new_sim = sc.dcp(sim)
sr_copy(r, h, strm) ==
    LET d == dcp(h, r.sim, r.fresh)
    IN  [r |-> [r EXCEPT !.new_sim = d.ref, !.pc = "verbose"],
         heap |-> d.heap, stream |-> strm]

\* if verbose is None: verbose = new_sim['verbose']
sr_verbose(r, h, strm) ==
    IF r.verbose # NoneVal
    THEN [r |-> [r EXCEPT !.pc = "seed"], heap |-> h, stream |-> strm]
    ELSE LET g == ParsObj_getitem(h[r.new_sim].pars, "verbose")
         IN  IF g.err # Ok
             THEN [r |-> Raise(r, g.err), heap |-> h, stream |-> strm]
             ELSE [r |-> [r EXCEPT !.verbose = g.ret, !.pc = "seed"],
                   heap |-> h, stream |-> strm]

\* new_sim['seed'] += ind; new_sim.set_seed()
sr_seed(r, h, strm) ==
    LET pars == h[r.new_sim].pars
        g == ParsObj_getitem(pars, "seed")
    IN  IF g.err # Ok
        THEN [r |-> Raise(r, g.err), heap |-> h, stream |-> strm]
        ELSE LET s == ParsObj_setitem(pars, "seed", g.ret[1] + r.ind)
                 t == set_seed(s.pars, strm, NoneVal, FALSE)
             IN  IF t.err # Ok
                 THEN [r |-> Raise(r, t.err),
                       heap |-> [h EXCEPT ![r.new_sim].pars = s.pars],
                       stream |-> t.stream]
                 ELSE [r |-> [r EXCEPT !.pc = "guess"],
                       heap |-> [h EXCEPT ![r.new_sim].pars = t.pars],
                       stream |-> t.stream]

InKeys(h, adr, key) == key \in DOMAIN h[adr].pars

\* A faulty guess: the first candidate found is taken when several are.
sr_guess_first(r, h, strm) ==
    IF r.noisepar # NoneVal
    THEN [r |-> [r EXCEPT !.pc = "noise"], heap |-> h, stream |-> strm]
    ELSE LET test(g) == InKeys(h, r.sim, g)
             found == SelectSeq(Guesses, test)
         IN  IF Len(found) = 0
             THEN [r |-> Raise(r, KeyError), heap |-> h, stream |-> strm]
             ELSE [r |-> [r EXCEPT !.noisepar = Some(found[1]), !.pc = "noise"],
                   heap |-> h, stream |-> strm]

\* If noisepar is None, it is the one name of guesses that is a key of sim.pars.
sr_guess(r, h, strm) ==
    IF r.noisepar # NoneVal
    THEN [r |-> [r EXCEPT !.pc = "noise"], heap |-> h, stream |-> strm]
    ELSE LET test(g) == InKeys(h, r.sim, g)
             found == SelectSeq(Guesses, test)
         IN  IF Len(found) # 1
             THEN [r |-> Raise(r, KeyError), heap |-> h, stream |-> strm]
             ELSE [r |-> [r EXCEPT !.noisepar = Some(found[1]), !.pc = "noise"],
                   heap |-> h, stream |-> strm]

\* noisefactor: 1 + noiseval if noiseval > 0, else 1/(1 - noiseval), as a
\* fraction.
NoiseFactor(noiseval) ==
    IF noiseval > 0 THEN [num |-> 1 + noiseval, den |-> 1]
    ELSE [num |-> 1, den |-> 1 - noiseval]

\* value * factor.  The values and factors of this model divide exactly, as the
\* floats do.
Times(value, factor) == (value * factor.num) \div factor.den

\* noiseval = noise*np.random.normal(), drawn here as draw;
\* new_sim[noisepar] *= noisefactor
sr_noise(r, h, strm, draw) ==
    LET noisefactor == NoiseFactor(r.noise * draw)
        pars == h[r.new_sim].pars
        g == ParsObj_getitem(pars, r.noisepar[1])
    IN  IF g.err # Ok
        THEN [r |-> Raise([r EXCEPT !.drawn = Some(strm)], g.err), heap |-> h,
              stream |-> Advance(strm)]
        ELSE LET s == ParsObj_setitem(pars, r.noisepar[1],
                                      Times(g.ret[1], noisefactor))
             IN  [r |-> [r EXCEPT !.noisefactor = noisefactor,
                                  !.drawn = Some(strm), !.pc = "override"],
                  heap |-> [h EXCEPT ![r.new_sim].pars = s.pars],
                  stream |-> Advance(strm)]

\* for key,val in kwargs.items(): a known key is assigned inside
\* "if verbose>=1:", an unknown key raises KeyError.
RECURSIVE Overrides(_, _, _)
Overrides(pars, kwargs, verbose) ==
    IF kwargs = <<>> THEN [err |-> Ok, pars |-> pars]
    ELSE LET key == kwargs[1][1]
             val == kwargs[1][2]
         IN  IF key \in DOMAIN pars
             THEN Overrides(IF verbose >= 1
                            THEN ParsObj_setitem(pars, key, val).pars
                            ELSE pars,
                            Tail(kwargs), verbose)
             ELSE [err |-> KeyError, pars |-> pars]

\* The loop over kwargs.
sr_override(r, h, strm) ==
    LET o == Overrides(h[r.new_sim].pars, r.kwargs, r.verbose[1])
        h2 == [h EXCEPT ![r.new_sim].pars = o.pars]
    IN  IF o.err # Ok
        THEN [r |-> Raise(r, o.err), heap |-> h2, stream |-> strm]
        ELSE [r |-> [r EXCEPT !.pc = "run"], heap |-> h2, stream |-> strm]

\* new_sim.run(verbose=verbose), the call.  Sim.run(self) has no parameter
\* verbose: on an engine of class Sim the call itself raises TypeError; the
\* run of a disease model starts.
sr_run(r, h, strm) ==
    IF h[r.new_sim].cls = SimClass
    THEN [r |-> Raise(r, TypeError), heap |-> h, stream |-> strm]
    ELSE [r |-> [r EXCEPT !.pc = "running"], heap |-> h, stream |-> strm]

\* new_sim.run(verbose=verbose) to its end; return new_sim
sr_return(r, h, strm, rate) ==
    [r |-> [r EXCEPT !.pc = "done"],
     heap |-> [h EXCEPT ![r.new_sim] = run_end(h[r.new_sim], rate)],
     stream |-> strm]

Draws == {-1, 0, 1}
Rates == 0..MaxRate

NoCall ==
    [op |-> "none", key |-> "", val |-> NoneVal, new |-> EmptyDict, flag |-> FALSE,
     isdict |-> TRUE, err |-> Ok, ret |-> NoneVal, pre |-> EmptyDict,
     prestream |-> Unseeded]

NoTasks == <<>>

(***************************************************************************)
(* multi_run, one operator per stage.  m is the activation.                *)
(***************************************************************************)
\* An activation of multi_run(sim, n, noise, noisepar, iterpars, verbose,
\* combine); iterpars is None or the sequence of its <<key, values>> pairs.
MultiActivation(sim, n, noise, noisepar, iterpars, verbose, combine, pre) ==
    [pc |-> "iterpars", sim |-> sim, n |-> Some(n), noise |-> noise,
     noisepar |-> noisepar, iterpars |-> iterpars, verbose |-> verbose,
     combine |-> combine, sims |-> <<>>, output |-> NoneVal, err |-> Ok,
     at |-> "", pre |-> pre, args |-> [n |-> n, iterpars |-> iterpars]]

NoMulti ==
    [MultiActivation(Tpl, 0, 0, NoneVal, NoneVal, NoneVal, FALSE, Blank)
        EXCEPT !.pc = "idle"]

\* A faulty length check: the last sequence's length is taken, unchecked.
RECURSIVE IterLen_unchecked(_, _)
IterLen_unchecked(iterpars, n) ==
    IF iterpars = <<>> THEN [err |-> Ok, n |-> n]
    ELSE IterLen_unchecked(Tail(iterpars), Some(Len(iterpars[1][2])))

\* for key,val in iterpars.items(): a length that differs from the one before
\* raises ValueError; n starts as None.
RECURSIVE IterLen(_, _)
IterLen(iterpars, n) ==
    IF iterpars = <<>> THEN [err |-> Ok, n |-> n]
    ELSE LET new_n == Len(iterpars[1][2])
         IN  IF n # NoneVal /\ new_n # n[1]
             THEN [err |-> ValueError, n |-> n]
             ELSE IterLen(Tail(iterpars), Some(new_n))

\* Handle iterpars
mr_iterpars(m) ==
    IF m.iterpars = NoneVal
    THEN [m EXCEPT !.iterpars = Some(<<>>), !.pc = "dispatch"]
    ELSE LET l == IterLen(m.iterpars[1], NoneVal)
         IN  IF l.err # Ok THEN Raise(m, l.err)
             ELSE [m EXCEPT !.n = l.n, !.pc = "dispatch"]

\* The keyword arguments of run ind: ind itself and the ind-th value of each
\* sequence of iterpars.
IterKwargs(iterpars, ind) ==
    [j \in 1..Len(iterpars) |-> <<iterpars[j][1], iterpars[j][2][ind + 1]>>]

\* The parameters single_run names; any other keyword lands in its **kwargs.
NamedPars == {"sim", "ind", "noise", "noisepar", "verbose", "sim_args"}

\* The value a call binds to the parameter name: the one among the keywords
\* kw if there is one, else default.
BoundArg(kw, name, default) ==
    IF \E j \in 1..Len(kw) : kw[j][1] = name
    THEN kw[CHOOSE j \in 1..Len(kw) : kw[j][1] = name][2]
    ELSE default

\* The keywords of kw that single_run receives in **kwargs.
RestKwargs(kw) ==
    LET other(p) == p[1] \notin NamedPars
    IN  SelectSeq(kw, other)

\* single_run(**kwargs, **iterkwargs[ind]): a keyword of the iteration replaces
\* the argument of its name.
TaskCall(m, ind) ==
    LET kw == IterKwargs(m.iterpars[1], ind)
        opt(name, default) == IF \E j \in 1..Len(kw) : kw[j][1] = name
                              THEN Some(BoundArg(kw, name, 0)) ELSE default
    IN  Activation(BoundArg(kw, "sim", m.sim), BoundArg(kw, "ind", ind),
                   BoundArg(kw, "noise", m.noise), opt("noisepar", m.noisepar),
                   opt("verbose", m.verbose), RestKwargs(kw), ind + 1, ind + 1)

\* iterkwargs = {'ind': np.arange(n)} + iterpars; kwargs = sim, noise,
\* noisepar, verbose, sim_args (the **kwargs multi_run was given are dropped);
\* and the calls sc.parallelize makes of single_run: one per index, each in a
\* process of its own.  np.arange(None) raises TypeError.
mr_dispatch(m) ==
    IF m.n = NoneVal THEN [m |-> Raise(m, TypeError), tasks |-> NoTasks]
    ELSE [m |-> [m EXCEPT !.pc = "pool"],
          tasks |-> [ind \in 0..(m.n[1] - 1) |-> TaskCall(m, ind)]]

\* sc.parallelize returns the runs' results in the order of their indices.
Collected(t) == [k \in 1..Cardinality(DOMAIN t) |-> t[k - 1].new_sim]

\* sims = sc.parallelize(...), when every run has ended; a run's exception is
\* raised here.
mr_collect(m, t, failed) ==
    IF failed # NoneVal THEN Raise(m, t[failed[1]].err)
    ELSE [m EXCEPT !.sims = Collected(t), !.pc = "combine"]

\* for key in sim.results_keys: output_sim.results[key] += sim.results[key],
\* key by key and in place: the first addition that raises leaves the series
\* of the keys before it added.
RECURSIVE MergeResults(_, _, _)
MergeResults(results, other, keys) ==
    IF keys = <<>> THEN [err |-> Ok, results |-> results]
    ELSE LET key == keys[1]
         IN  IF key \notin DOMAIN results
             THEN [err |-> KeyError, results |-> results]
             ELSE LET a == IAdd(results[key], other[key])
                  IN  IF a.err # Ok THEN [err |-> a.err, results |-> results]
                      ELSE MergeResults([results EXCEPT ![key] = a.val], other,
                                        Tail(keys))

\* for sim in sims[1:]: output_sim.people.update(sim.people), then the series.
RECURSIVE Merge(_, _, _)
Merge(out, h, sims) ==
    IF sims = <<>> THEN [err |-> Ok, sim |-> out]
    ELSE LET sim == h[sims[1]]
             people == DictUpdate(out.people[1], sim.people[1])
             g == MergeResults(out.results[1], sim.results[1], results_keys(sim))
             out2 == [out EXCEPT !.people = Some(people),
                                 !.results = Some(g.results)]
         IN  IF g.err # Ok THEN [err |-> g.err, sim |-> out2]
             ELSE Merge(out2, h, Tail(sims))

\* if not combine: output = sims; else the merged copy of sims[0].
mr_combine(m, h, fresh) ==
    IF ~m.combine
    THEN [m |-> [m EXCEPT !.output = Some(m.sims), !.pc = "done"], heap |-> h]
    ELSE IF m.sims = <<>> THEN [m |-> Raise(m, IndexError), heap |-> h]
    ELSE LET d == dcp(h, m.sims[1], fresh)
             out0 == d.heap[d.ref]
             pars1 == DictUpdate(out0.pars, "parallelized" :> m.n[1])
         IN  IF "n" \notin DOMAIN pars1
             THEN [m |-> Raise(m, KeyError),
                   heap |-> [d.heap EXCEPT ![d.ref].pars = pars1]]
             ELSE LET pars2 == [pars1 EXCEPT !["n"] = @ * m.n[1]]
                      g == Merge([out0 EXCEPT !.pars = pars2], d.heap, Tail(m.sims))
                  IN  IF g.err # Ok
                      THEN [m |-> Raise(m, g.err),
                            heap |-> [d.heap EXCEPT ![d.ref] = g.sim]]
                      ELSE [m |-> [m EXCEPT !.output = Some(<<d.ref>>),
                                            !.pc = "done"],
                            heap |-> [d.heap EXCEPT ![d.ref] = g.sim]]

(***************************************************************************)
(* Spec: the parameter store and the seed of one engine.                   *)
(***************************************************************************)
StoreKeys == {"seed", "beta"}
AnyKeys == StoreKeys \cup {"bogus"}

Init ==
    /\ \E p \in Dicts(StoreKeys, Vals) : heap = (Tpl :> NewSim(SimClass, p))
    /\ stream = (Main :> Unseeded)
    /\ last = NoCall
    /\ run = NoRun
    /\ tasks = NoTasks
    /\ mr = NoMulti

GetItem ==
    \E key \in AnyKeys :
        LET pars == heap[Tpl].pars
            r == ParsObj_getitem(pars, key)
        IN  /\ last' = [NoCall EXCEPT !.op = "getitem", !.key = key, !.err = r.err,
                                      !.ret = r.ret, !.pre = pars]
            /\ UNCHANGED <<heap, stream, run, tasks, mr>>

SetItem ==
    \E key \in AnyKeys, value \in Vals :
        LET pars == heap[Tpl].pars
            r == ParsObj_setitem(pars, key, value)
        IN  /\ heap' = [heap EXCEPT ![Tpl].pars = r.pars]
            /\ last' = [NoCall EXCEPT !.op = "setitem", !.key = key,
                                      !.val = Some(value), !.err = r.err,
                                      !.pre = pars]
            /\ UNCHANGED <<stream, run, tasks, mr>>

UpdatePars ==
    \E new \in Dicts(AnyKeys, Vals), create \in BOOLEAN :
        LET pars == heap[Tpl].pars
            r == update_pars(pars, new, TRUE, create)
        IN  /\ heap' = [heap EXCEPT ![Tpl].pars = r.pars]
            /\ last' = [NoCall EXCEPT !.op = "update_pars", !.new = new,
                                      !.flag = create, !.err = r.err, !.pre = pars]
            /\ UNCHANGED <<stream, run, tasks, mr>>

\* update_pars with something that is not a dict.
UpdateParsNotDict ==
    \E create \in BOOLEAN :
        LET pars == heap[Tpl].pars
            r == update_pars(pars, EmptyDict, FALSE, create)
        IN  /\ heap' = [heap EXCEPT ![Tpl].pars = r.pars]
            /\ last' = [NoCall EXCEPT !.op = "update_pars", !.isdict = FALSE,
                                      !.flag = create, !.err = r.err, !.pre = pars]
            /\ UNCHANGED <<stream, run, tasks, mr>>

SetSeed ==
    \E seed \in Opt(Vals), randomize \in BOOLEAN :
        LET pars == heap[Tpl].pars
            r == set_seed(pars, stream[Main], seed, randomize)
        IN  /\ heap' = [heap EXCEPT ![Tpl].pars = r.pars]
            /\ stream' = [stream EXCEPT ![Main] = r.stream]
            /\ last' = [NoCall EXCEPT !.op = "set_seed", !.val = seed,
                                      !.flag = randomize, !.err = r.err,
                                      !.pre = pars, !.prestream = stream[Main]]
            /\ UNCHANGED <<run, tasks, mr>>

Next == GetItem \/ SetItem \/ UpdatePars \/ UpdateParsNotDict \/ SetSeed

Spec == Init /\ [][Next]_vars

(***************************************************************************)
(* The parameter sets of the engines the ensemble functions are given.     *)
(***************************************************************************)
DefaultPars ==
    [seed |-> 1, verbose |-> 0, n |-> PopSize, n_days |-> NDays,
     r_contact |-> 2, r0 |-> 2, beta |-> 2]

StoreOver(K) == [k \in K |-> DefaultPars[k]]

\* sim.people = ...; sim.results = ...: the population and the series are
\* attributes the caller or the disease model assigns.
Populated(sim, kind) ==
    [sim EXCEPT !.people = Some(Population(sim.pars["n"])),
                !.results = Some(ResultDict(kind, Sim_npts(sim)))]

\* An engine made ready to run: constructed, seeded (randomized when it has no
\* stored seed), population and series assigned.
Prepared(cls, pars, kind) ==
    LET s0 == NewSim(cls, pars)
        t == set_seed(s0.pars, Unseeded, NoneVal, "seed" \notin DOMAIN pars)
    IN  [sim |-> Populated([s0 EXCEPT !.pars = t.pars], kind),
         stream |-> t.stream]

\* The steps of single_run called directly, in the calling process.
SingleApply(s) ==
    /\ run' = s.r
    /\ heap' = s.heap
    /\ stream' = [stream EXCEPT ![run.proc] = s.stream]
    /\ UNCHANGED <<last, tasks, mr>>

SR_Copy == run.pc = "copy" /\ SingleApply(sr_copy(run, heap, stream[run.proc]))

SR_Verbose ==
    run.pc = "verbose" /\ SingleApply(sr_verbose(run, heap, stream[run.proc]))

SR_Seed == run.pc = "seed" /\ SingleApply(sr_seed(run, heap, stream[run.proc]))

SR_Guess == run.pc = "guess" /\ SingleApply(sr_guess(run, heap, stream[run.proc]))

SR_Noise ==
    /\ run.pc = "noise"
    /\ \E draw \in Draws : SingleApply(sr_noise(run, heap, stream[run.proc], draw))

SR_Override ==
    run.pc = "override" /\ SingleApply(sr_override(run, heap, stream[run.proc]))

SR_Run == run.pc = "run" /\ SingleApply(sr_run(run, heap, stream[run.proc]))

SR_Return ==
    /\ run.pc = "running"
    /\ \E rate \in Rates : SingleApply(sr_return(run, heap, stream[run.proc], rate))

SR_Steps ==
    \/ SR_Copy \/ SR_Verbose \/ SR_Seed \/ SR_Guess
    \/ SR_Noise \/ SR_Override \/ SR_Run \/ SR_Return

(***************************************************************************)
(* SpecLife: the calls made on one engine of class Sim, and single_run     *)
(* called on it at any point.                                              *)
(***************************************************************************)
LifeKeys == {"seed", "verbose", "n", "n_days", "beta"}

InitLife ==
    /\ heap = (Tpl :> Blank)
    /\ stream = (Main :> Unseeded)
    /\ last = NoCall
    /\ run = NoRun
    /\ tasks = NoTasks
    /\ mr = NoMulti

\* The caller is one thread: it is in single_run or between two calls.
Between == run.pc \in {"idle", "done", "raised"}

\* Sim.__init__ has run: hasattr(sim, 'pars'), whatever the parameters are.
Constructed == heap[Tpl].haspars

Called(op, err) == [NoCall EXCEPT !.op = op, !.err = err]

L_Construct ==
    /\ Between /\ ~Constructed
    /\ \E K \in {LifeKeys, LifeKeys \ {"seed"}} :
           heap' = [heap EXCEPT ![Tpl] = NewSim(SimClass, StoreOver(K))]
    /\ last' = Called("init", Ok)
    /\ UNCHANGED <<stream, run, tasks, mr>>

L_SetSeed ==
    /\ Between /\ Constructed
    /\ \E seed \in Opt(Vals), randomize \in BOOLEAN :
          LET r == set_seed(heap[Tpl].pars, stream[Main], seed, randomize)
          IN  /\ heap' = [heap EXCEPT ![Tpl].pars = r.pars]
              /\ stream' = [stream EXCEPT ![Main] = r.stream]
              /\ last' = Called("set_seed", r.err)
    /\ UNCHANGED <<run, tasks, mr>>

L_InitPeople ==
    /\ Between /\ Constructed
    /\ LET r == Sim_init_people(heap[Tpl])
       IN  /\ heap' = [heap EXCEPT ![Tpl] = r.sim]
           /\ last' = Called("init_people", r.err)
    /\ UNCHANGED <<stream, run, tasks, mr>>

L_InitResults ==
    /\ Between /\ Constructed
    /\ LET r == Sim_init_results(heap[Tpl])
       IN  /\ heap' = [heap EXCEPT ![Tpl] = r.sim]
           /\ last' = Called("init_results", r.err)
    /\ UNCHANGED <<stream, run, tasks, mr>>

L_Run ==
    /\ Between /\ Constructed
    /\ LET r == Sim_run(heap[Tpl])
       IN  /\ heap' = [heap EXCEPT ![Tpl] = r.sim]
           /\ last' = Called("run", r.err)
    /\ UNCHANGED <<stream, run, tasks, mr>>

\* The caller assigns the population and the series.
L_Populate ==
    /\ Between /\ Constructed /\ heap[Tpl].results = NoneVal
    /\ heap' = [heap EXCEPT ![Tpl] = Populated(heap[Tpl], "Result")]
    /\ last' = Called("populate", Ok)
    /\ UNCHANGED <<stream, run, tasks, mr>>

\* single_run(sim, ind), once in a behaviour.
L_SingleRun ==
    /\ run.pc = "idle" /\ Constructed
    /\ \E ind \in 0..MaxInd :
          run' = Activation(Tpl, ind, 0, NoneVal, Some(0), <<>>, Main, Tpl + 1)
    /\ UNCHANGED <<heap, stream, last, tasks, mr>>

\* The indices tried on a series of npts points: the first point, the last
\* one counted from the end, and one past the end.
Indices(npts) == {0, -1, npts}

\* r = sim.results[name]; r[i] and r[i] = v, on a series of the engine.
L_ResultGetItem ==
    /\ Between /\ heap[Tpl].results # NoneVal
    /\ \E i \in Indices(Sim_npts(heap[Tpl])) :
          LET r == Result_getitem(heap[Tpl].results[1]["new_infections"], i)
          IN  last' = [Called("Result.getitem", r.err) EXCEPT !.ret = r.ret]
    /\ UNCHANGED <<heap, stream, run, tasks, mr>>

L_ResultSetItem ==
    /\ Between /\ heap[Tpl].results # NoneVal
    /\ \E i \in Indices(Sim_npts(heap[Tpl])), v \in Vals :
          LET r == Result_setitem(heap[Tpl].results[1]["new_infections"], i, v)
          IN  /\ heap' = [heap EXCEPT ![Tpl].results[1]["new_infections"] = r.res]
              /\ last' = [Called("Result.setitem", r.err) EXCEPT !.val = Some(v)]
    /\ UNCHANGED <<stream, run, tasks, mr>>

\* On an engine of class Sim single_run ends at its call of run.
NextLife ==
    \/ L_Construct \/ L_SetSeed \/ L_InitPeople \/ L_InitResults
    \/ L_Run \/ L_Populate \/ L_ResultGetItem \/ L_ResultSetItem
    \/ L_SingleRun
    \/ SR_Copy \/ SR_Verbose \/ SR_Seed \/ SR_Guess
    \/ SR_Noise \/ SR_Override \/ SR_Run

SpecLife == InitLife /\ [][NextLife]_vars

(***************************************************************************)
(* SpecSingle: single_run called once on an engine that is ready to run.   *)
(***************************************************************************)
OptionalKeys == {"seed", "verbose", "r_contact", "r0", "beta"}

\* The template's parameters: n and n_days, any of the other keys, verbose 0
\* or 1.
TplStores ==
    {[StoreOver({"n", "n_days"} \cup K) EXCEPT !["verbose"] = v] :
        K \in {X \in SUBSET OptionalKeys : "verbose" \in X}, v \in {0, 1}}
    \cup {StoreOver({"n", "n_days"} \cup K) :
        K \in {X \in SUBSET OptionalKeys : "verbose" \notin X}}

\* The keyword arguments given: at most one value for each of a known and an
\* unknown name, in either order.
KwargsChoices ==
    {<<>>, <<<<"beta", 6>>>>, <<<<"bogus", 6>>>>,
     <<<<"beta", 6>>, <<"bogus", 6>>>>, <<<<"bogus", 6>>, <<"beta", 6>>>>,
     <<<<"seed", 6>>, <<"beta", 6>>>>}

InitSingle ==
    /\ \E cls \in Classes, p \in TplStores :
          LET e == Prepared(cls, p, "Result")
          IN  /\ heap = (Tpl :> e.sim)
              /\ stream = (Main :> e.stream)
    /\ last = NoCall
    /\ run = NoRun
    /\ tasks = NoTasks
    /\ mr = NoMulti

S_SingleRun ==
    /\ run.pc = "idle"
    /\ \E ind \in 0..MaxInd, noise \in {0, 1},
          noisepar \in {NoneVal, Some("beta"), Some("bogus")},
          verbose \in Opt({0, 1}), kwargs \in KwargsChoices :
          run' = Activation(Tpl, ind, noise, noisepar, verbose, kwargs, Main,
                            Tpl + 1)
    /\ UNCHANGED <<heap, stream, last, tasks, mr>>

NextSingle == S_SingleRun \/ SR_Steps

SpecSingle == InitSingle /\ [][NextSingle]_vars

(***************************************************************************)
(* SpecMulti: multi_run called once on an engine that is ready to run; the *)
(* runs of the pool advance in any interleaving.  The series of the engine *)
(* are Result objects, arrays, or an array followed by a Result (no run of *)
(* an engine of class Sim gets as far as its series).                      *)
(***************************************************************************)
MultiStores ==
    {[StoreOver({"seed", "verbose", "n", "n_days"} \cup K) EXCEPT !["verbose"] = v] :
        K \in {{"beta"}, {"beta", "r0"}}, v \in {0, 1}}

BetaSeq(len) == [i \in 1..len |-> 4 + 2 * i]
ZeroSeq(len) == [i \in 1..len |-> 0]

\* The iterpars given: none, an empty dict, values for beta, or values for
\* beta and verbose of the same or of different lengths.
IterChoices ==
    {NoneVal, Some(<<>>)}
    \cup {Some(<<<<"beta", BetaSeq(l)>>>>) : l \in 0..MaxN}
    \cup {Some(<<<<"beta", BetaSeq(l1)>>, <<"verbose", ZeroSeq(l2)>>>>) :
             l1 \in 1..MaxN, l2 \in 1..MaxN}

InitMulti ==
    /\ \E cls \in Classes, p \in MultiStores :
       \E kind \in IF cls = SimClass THEN {"Result"}
                    ELSE {"Result", "ndarray", "mixed"} :
          LET e == Prepared(cls, p, kind)
          IN  /\ heap = (Tpl :> e.sim)
              /\ stream = (Main :> e.stream)
    /\ last = NoCall
    /\ run = NoRun
    /\ tasks = NoTasks
    /\ mr = NoMulti

M_MultiRun ==
    /\ mr.pc = "idle"
    /\ \E n \in 1..MaxN, noise \in {0, 1}, iterpars \in IterChoices,
          verbose \in {NoneVal, Some(1)}, combine \in BOOLEAN :
          mr' = MultiActivation(Tpl, n, noise, NoneVal, iterpars, verbose,
                                combine, heap[Tpl])
    /\ UNCHANGED <<heap, stream, last, run, tasks>>

M_IterPars ==
    /\ mr.pc = "iterpars"
    /\ mr' = mr_iterpars(mr)
    /\ UNCHANGED <<heap, stream, last, run, tasks>>

\* The pool's processes are forked from the caller's: each starts with the
\* caller's stream.
M_Dispatch ==
    /\ mr.pc = "dispatch"
    /\ LET d == mr_dispatch(mr)
       IN  /\ mr' = d.m
           /\ tasks' = d.tasks
           /\ stream' = [pr \in {Main} \cup {d.tasks[i].proc : i \in DOMAIN d.tasks}
                            |-> stream[Main]]
    /\ UNCHANGED <<heap, last, run>>

TaskApply(i, s) ==
    /\ tasks' = [tasks EXCEPT ![i] = s.r]
    /\ heap' = s.heap
    /\ stream' = [stream EXCEPT ![tasks[i].proc] = s.stream]
    /\ UNCHANGED <<last, run, mr>>

T_Copy ==
    \E i \in DOMAIN tasks :
        /\ tasks[i].pc = "copy"
        /\ TaskApply(i, sr_copy(tasks[i], heap, stream[tasks[i].proc]))

T_Verbose ==
    \E i \in DOMAIN tasks :
        /\ tasks[i].pc = "verbose"
        /\ TaskApply(i, sr_verbose(tasks[i], heap, stream[tasks[i].proc]))

T_Seed ==
    \E i \in DOMAIN tasks :
        /\ tasks[i].pc = "seed"
        /\ TaskApply(i, sr_seed(tasks[i], heap, stream[tasks[i].proc]))

T_Guess ==
    \E i \in DOMAIN tasks :
        /\ tasks[i].pc = "guess"
        /\ TaskApply(i, sr_guess(tasks[i], heap, stream[tasks[i].proc]))

T_Noise ==
    \E i \in DOMAIN tasks, draw \in Draws :
        /\ tasks[i].pc = "noise"
        /\ TaskApply(i, sr_noise(tasks[i], heap, stream[tasks[i].proc], draw))

T_Override ==
    \E i \in DOMAIN tasks :
        /\ tasks[i].pc = "override"
        /\ TaskApply(i, sr_override(tasks[i], heap, stream[tasks[i].proc]))

T_Run ==
    \E i \in DOMAIN tasks :
        /\ tasks[i].pc = "run"
        /\ TaskApply(i, sr_run(tasks[i], heap, stream[tasks[i].proc]))

T_Return ==
    \E i \in DOMAIN tasks, rate \in Rates :
        /\ tasks[i].pc = "running"
        /\ TaskApply(i, sr_return(tasks[i], heap, stream[tasks[i].proc], rate))

M_Collect ==
    /\ mr.pc = "pool"
    /\ \A i \in DOMAIN tasks : tasks[i].pc \in {"done", "raised"}
    /\ LET raised == {i \in DOMAIN tasks : tasks[i].pc = "raised"}
       IN  \E failed \in IF raised = {} THEN {NoneVal} ELSE {Some(i) : i \in raised} :
              mr' = mr_collect(mr, tasks, failed)
    /\ UNCHANGED <<heap, stream, last, run, tasks>>

M_Combine ==
    /\ mr.pc = "combine"
    /\ LET c == mr_combine(mr, heap, Len(mr.sims) + 1)
       IN  /\ mr' = c.m
           /\ heap' = c.heap
    /\ UNCHANGED <<stream, last, run, tasks>>

NextMulti ==
    \/ M_MultiRun \/ M_IterPars \/ M_Dispatch
    \/ T_Copy \/ T_Verbose \/ T_Seed \/ T_Guess
    \/ T_Noise \/ T_Override \/ T_Run \/ T_Return
    \/ M_Collect \/ M_Combine

SpecMulti == InitMulti /\ [][NextMulti]_vars

(***************************************************************************)
(* C1                                                                      *)
(***************************************************************************)
\* C1: set(key, v) on a present key makes a subsequent get(key) return v; a
\* set on an absent key, or an update with create=False naming at least one
\* absent key, raises KeyError and leaves the store as it was before the call.
C1_SetThenGet_UnknownKeyAtomic ==
    LET pars == heap[Tpl].pars IN
    /\ (last.op = "setitem" /\ last.key \in DOMAIN last.pre) =>
          /\ last.err = Ok
          /\ ParsObj_getitem(pars, last.key) = [err |-> Ok, ret |-> last.val]
    /\ (last.op = "setitem" /\ last.key \notin DOMAIN last.pre) =>
          /\ last.err = KeyError
          /\ pars = last.pre
    /\ (last.op = "update_pars" /\ last.isdict /\ ~last.flag
          /\ (DOMAIN last.new) \ (DOMAIN last.pre) # {}) =>
          /\ last.err = KeyError
          /\ pars = last.pre

\* An update with create=False that names a known key with a new value next to
\* an unknown key has been rejected.
C1_Witness ==
    /\ last.op = "update_pars" /\ last.isdict /\ ~last.flag
    /\ last.err = KeyError
    /\ \E k \in DOMAIN last.new : k \notin DOMAIN last.pre
    /\ \E k \in (DOMAIN last.new) \cap (DOMAIN last.pre) : last.new[k] # last.pre[k]

(***************************************************************************)
(* C2                                                                      *)
(***************************************************************************)
C2_RandomizeModes ==
    LET pars == heap[Tpl].pars IN
    /\ (last.op = "set_seed" /\ last.flag /\ last.val # NoneVal) =>
          /\ last.err = ValueError
          /\ pars = last.pre
          /\ stream[Main] = last.prestream
    /\ (last.op = "set_seed" /\ last.flag /\ last.val = NoneVal) =>
          /\ last.err = Ok
          /\ pars = last.pre
          /\ stream[Main] = Randomized

C2_StoredSeedModes ==
    LET pars == heap[Tpl].pars IN
    /\ (last.op = "set_seed" /\ ~last.flag /\ last.val # NoneVal) =>
          /\ last.err = Ok
          /\ ParsObj_getitem(pars, "seed") = [err |-> Ok, ret |-> last.val]
          /\ \A k \in DOMAIN last.pre \ {"seed"} : pars[k] = last.pre[k]
          /\ DOMAIN pars = DOMAIN last.pre \cup {"seed"}
          /\ stream[Main] = Seeded(last.val[1])
    /\ (last.op = "set_seed" /\ ~last.flag /\ last.val = NoneVal) =>
          /\ last.err = Ok
          /\ pars = last.pre
          /\ "seed" \in DOMAIN pars
          /\ stream[Main] = Seeded(pars["seed"])

\* C2 as stated: each of the four combinations of seed and randomize has its
\* stated effect on every engine.
C2_Original == C2_RandomizeModes /\ C2_StoredSeedModes

\* C2, amended: the four modes behave as stated on an engine whose parameter
\* store has the key 'seed'; on a store without it the two randomize=False
\* modes raise KeyError and change neither the store nor the stream.
C2_SeedModes ==
    LET pars == heap[Tpl].pars IN
    /\ C2_RandomizeModes
    /\ "seed" \in DOMAIN last.pre => C2_StoredSeedModes
    /\ (last.op = "set_seed" /\ ~last.flag /\ "seed" \notin DOMAIN last.pre) =>
          /\ last.err = KeyError
          /\ pars = last.pre
          /\ stream[Main] = last.prestream

\* set_seed(seed, randomize=True) has been refused on an engine that holds
\* another seed and whose stream had been seeded from it.
C2_Witness ==
    /\ last.op = "set_seed" /\ last.flag /\ last.val # NoneVal
    /\ last.err = ValueError
    /\ "seed" \in DOMAIN last.pre
    /\ last.prestream = Seeded(last.pre["seed"])
    /\ last.val[1] # last.pre["seed"]

(***************************************************************************)
(* C3                                                                      *)
(***************************************************************************)
UninitializedSimulation == "UninitializedSimulation"

Initialized(sim) == sim.people # NoneVal /\ sim.results # NoneVal

\* C3: an engine runs only with its population and results initialized, in
\* single_run's sequence copy, seed, run as in any other; run called on an
\* engine whose population or results are not initialized fails with
\* UninitializedSimulation, and so does init_results called before the
\* population exists (a skipped state).
C3_Lifecycle ==
    /\ run.pc \in {"running", "done"} => Initialized(heap[run.new_sim])
    /\ (last.op = "run" /\ ~Initialized(heap[Tpl])) =>
          last.err = UninitializedSimulation
    /\ (last.op = "init_results" /\ heap[Tpl].people = NoneVal) =>
          last.err = UninitializedSimulation
    /\ (run.pc = "raised" /\ run.at = "run"
          /\ ~Initialized(heap[run.new_sim])) =>
          run.err = UninitializedSimulation

(***************************************************************************)
(* C4                                                                      *)
(***************************************************************************)
\* C4: from the end of the loop over the overrides on, and so in the engine
\* single_run returns, every keyword override is the value of its parameter,
\* whatever verbose is; an override naming an unknown key raises KeyError and
\* the run is not executed.
C4_OverridesApplied ==
    /\ run.pc \in {"run", "running", "done"} =>
          \A j \in 1..Len(run.kwargs) :
              ParsObj_getitem(heap[run.new_sim].pars, run.kwargs[j][1])
                  = [err |-> Ok, ret |-> Some(run.kwargs[j][2])]
    /\ (\E j \in 1..Len(run.kwargs) : run.kwargs[j][1] \notin DOMAIN heap[Tpl].pars) =>
          /\ run.pc \notin {"run", "running", "done"}
          /\ (run.pc = "raised" /\ run.at = "override") => run.err = KeyError

(***************************************************************************)
(* C5                                                                      *)
(***************************************************************************)
Present == {g \in {Guesses[i] : i \in 1..Len(Guesses)} : g \in DOMAIN heap[Tpl].pars}

AfterGuess(r) ==
    \/ r.pc \in {"noise", "override", "run", "running", "done"}
    \/ r.pc = "raised" /\ r.at \in {"noise", "override", "run"}

NotRun(r) ==
    r.new_sim # NoRef =>
        /\ r.at # "run"
        /\ heap[r.new_sim].people = heap[Tpl].people
        /\ heap[r.new_sim].results = heap[Tpl].results

\* C5: without a noisepar argument the guess succeeds, with the one candidate
\* that is a key of the template's parameters, exactly when one candidate is;
\* with none or several, single_run raises KeyError, whatever noise is, and
\* nothing is run.
C5_NoiseParGuess ==
    run.args.noisepar = NoneVal =>
        /\ AfterGuess(run) =>
              /\ Cardinality(Present) = 1
              /\ run.noisepar # NoneVal /\ run.noisepar[1] \in Present
        /\ (run.pc = "raised" /\ run.at = "guess") =>
              /\ Cardinality(Present) # 1
              /\ run.err = KeyError
        /\ Cardinality(Present) # 1 =>
              /\ run.pc \in {"idle", "copy", "verbose", "seed", "guess", "raised"}
              /\ run.pc = "raised" => run.err = KeyError /\ NotRun(run)
        /\ run.pc = "override" =>
              heap[run.new_sim].pars[run.noisepar[1]]
                  = Times(heap[Tpl].pars[run.noisepar[1]], run.noisefactor)

\* With noise 0 and two candidates among the parameters the guess has failed.
C5_Witness ==
    /\ run.args.noisepar = NoneVal /\ run.noise = 0
    /\ run.pc = "raised" /\ run.at = "guess" /\ run.err = KeyError
    /\ Cardinality(Present) = 2

(***************************************************************************)
(* C6                                                                      *)
(***************************************************************************)
IterLens(ip) == {Len(ip[j][2]) : j \in 1..Len(ip)}

Dispatched(m) ==
    \/ m.pc \in {"pool", "combine", "done"}
    \/ m.pc = "raised" /\ m.at \in {"pool", "combine"}

RunsAre(n) ==
    /\ DOMAIN tasks = 0..(n - 1)
    /\ \A i \in DOMAIN tasks :
          /\ tasks[i].ind = i
          /\ tasks[i].kwargs = RestKwargs(IterKwargs(mr.iterpars[1], i))

\* C6: with iterpars given, the number of runs is the common length of its
\* sequences, whatever n was passed, and sequences of different lengths raise
\* ValueError before any run is dispatched; without iterpars, the runs are the
\* n runs of indices 0..n-1.
C6_RunCount ==
    LET ip == mr.args.iterpars IN
    /\ (ip # NoneVal /\ mr.pc \notin {"idle", "iterpars"}) =>
          /\ Cardinality(IterLens(ip[1])) = 1 =>
                /\ ~(mr.pc = "raised" /\ mr.at = "iterpars")
                /\ \A l \in IterLens(ip[1]) :
                      /\ mr.n = Some(l)
                      /\ Dispatched(mr) => RunsAre(l)
          /\ Cardinality(IterLens(ip[1])) > 1 =>
                /\ mr.pc = "raised" /\ mr.at = "iterpars" /\ mr.err = ValueError
                /\ tasks = NoTasks
                /\ DOMAIN heap = {Tpl}
    /\ (ip = NoneVal /\ mr.pc \notin {"idle", "iterpars", "dispatch"}) =>
          /\ Dispatched(mr)
          /\ RunsAre(mr.args.n)

\* Sequences of different lengths have been refused; n was one of the lengths.
C6_Witness ==
    /\ mr.args.iterpars # NoneVal
    /\ Cardinality(IterLens(mr.args.iterpars[1])) = 2
    /\ mr.args.n \in IterLens(mr.args.iterpars[1])
    /\ mr.pc = "raised" /\ mr.err = ValueError

(***************************************************************************)
(* C7                                                                      *)
(***************************************************************************)
\* C7: with combine=False, element i of the output is the engine of run i: its
\* seed is the template's seed + i and each iterated parameter has the i-th
\* value of its sequence.
C7_IndexAligned ==
    (mr.pc = "done" /\ ~mr.combine) =>
        /\ Len(mr.output[1]) = mr.n[1]
        /\ \A i \in 0..(mr.n[1] - 1) :
              LET pars == heap[mr.output[1][i + 1]].pars IN
              /\ pars["seed"] = mr.pre.pars["seed"] + i
              /\ \A j \in 1..Len(mr.iterpars[1]) :
                    pars[mr.iterpars[1][j][1]] = mr.iterpars[1][j][2][i + 1]

(***************************************************************************)
(* C8                                                                      *)
(***************************************************************************)
\* C8: during and after multi_run, failed or not, the template engine is what
\* it was at the call; every run works on a copy of its own and draws its
\* noise from a stream seeded with its own seed.
C8_TemplateReadOnly ==
    mr.pc # "idle" =>
        /\ heap[Tpl] = mr.pre
        /\ \A i \in DOMAIN tasks :
              /\ tasks[i].new_sim # NoRef =>
                    /\ tasks[i].new_sim # Tpl
                    /\ \A j \in DOMAIN tasks \ {i} :
                          tasks[j].new_sim # tasks[i].new_sim
              /\ tasks[i].drawn # NoneVal =>
                    tasks[i].drawn = Some(Seeded(mr.pre.pars["seed"] + i))
        /\ (mr.pc = "done" /\ mr.combine) =>
              \A i \in DOMAIN tasks : mr.output[1][1] \notin {Tpl, tasks[i].new_sim}

\* Two runs have completed with their parameter perturbed, and a third state:
\* the call has returned.
C8_Witness ==
    /\ mr.pc = "done"
    /\ Cardinality(DOMAIN tasks) = 2
    /\ \A i \in DOMAIN tasks :
          /\ tasks[i].noisefactor # NoFactor
          /\ heap[tasks[i].new_sim].pars # mr.pre.pars

(***************************************************************************)
(* C9                                                                      *)
(***************************************************************************)
RECURSIVE SeriesSum(_, _, _)
SeriesSum(sims, name, d) ==
    IF sims = <<>> THEN 0
    ELSE heap[sims[1]].results[1][name].values[d] + SeriesSum(Tail(sims), name, d)

\* C9: with combine=True and every run completed, multi_run returns a merged
\* engine whose every Result series is, day by day, the sum of the runs' series
\* of that name.
C9_ElementwiseSum ==
    (mr.combine /\ mr.sims # <<>> /\ mr.pc \in {"done", "raised"}
       /\ \A name \in ResultNames : mr.pre.results[1][name].kind = "Result") =>
        /\ mr.pc = "done"
        /\ \A name \in ResultNames :
              \A d \in 1..Sim_npts(mr.pre) :
                  heap[mr.output[1][1]].results[1][name].values[d]
                      = SeriesSum(mr.sims, name, d)

(***************************************************************************)
(* C10                                                                     *)
(***************************************************************************)
\* C10: the merged engine of k runs of p agents each holds k*p agents, and its
\* parameter 'n' is that number.
C10_PopulationScaled ==
    (mr.combine /\ mr.pc = "done") =>
        LET out == heap[mr.output[1][1]] IN
        /\ Sim_n(out) = Len(mr.sims) * Sim_n(mr.pre)
        /\ out.pars["n"] = Sim_n(out)
====
